---- MODULE Spec2Model ----
(***************************************************************************)
(* HyperNetworkTrainer of train_hypernetwork.py as a state machine: the    *)
(* constructor's configuration, the train() loop with one action per call  *)
(* of a training batch, evaluate_as_ensemble(), test() (entry, one action  *)
(* per test batch, exit) and the uncertainty loop.                         *)
(*                                                                         *)
(* Losses and accuracies are exact rationals <<num, den>> (den > 0, lowest  *)
(* terms); numpy's inf is <<1, 0>>.  exp and log are fixed-point tables in *)
(* thousandths, probabilities are fixed-point numbers in thousandths.      *)
(* Logits take the values 0 and 1.                                         *)
(***************************************************************************)
EXTENDS Integers, Sequences, FiniteSets

\* ---------------------------------------------------------------- bounds
\* self.epochs is 200 in the source; the model runs this many epochs.
epochs == 2
\* batches yielded by the training loader in one epoch
TrainBatches == 2
\* largest --num_particles the model configures
MaxParticles == 2
\* largest len(self.data_test.dataset)
MaxTest == 3
\* largest batch size of the test loader
MaxBatch == 2
\* classes D of the classifier (10 in the source's comments)
NumClasses == 3
\* largest ensemble handed to the voting rule in SpecVote
MaxMembers == 3

Classes == 0 .. (NumClasses - 1)
LogitVals == {0, 1}

\* --------------------------------------------------------------- numbers
\* Arithmetic is written as functions: a function's argument is a value when its
\* body is evaluated.
GCD[a \in Nat, b \in Nat] == IF b = 0 THEN a ELSE GCD[b, a % b]

Q == Nat \X Nat
Rat[n \in Nat, d \in Nat] ==
    LET g == GCD[n, d] IN IF g = 0 THEN <<n, d>> ELSE <<n \div g, d \div g>>
Zero == <<0, 1>>
Inf == <<1, 0>>
RAdd[a \in Q, b \in Q] == Rat[a[1] * b[2] + b[1] * a[2], a[2] * b[2]]
RDivInt[a \in Q, k \in Nat] == Rat[a[1], a[2] * k]
RMulInt[a \in Q, k \in Nat] == Rat[a[1] * k, a[2]]
RLt[a \in Q, b \in Q] == a[1] * b[2] < b[1] * a[2]
RLeq[a \in Q, b \in Q] == a[1] * b[2] <= b[1] * a[2]

RSumTo[s \in Seq(Q), k \in Nat] == IF k = 0 THEN Zero ELSE RAdd[RSumTo[s, k - 1], s[k]]

SumTo[s \in Seq(Nat), k \in Nat] == IF k = 0 THEN 0 ELSE SumTo[s, k - 1] + s[k]

\* the sum of a sequence of naturals
Sum[s \in Seq(Nat)] == SumTo[s, Len(s)]

\* the sum of a sequence of rationals
RSum[s \in Seq(Q)] == RSumTo[s, Len(s)]

\* e^x in thousandths, for the logits of the model
ExpMilli[x \in LogitVals] == IF x = 0 THEN 1000 ELSE 2718

\* ln(s / 1000) in thousandths, for the sums of ExpMilli over at most 4 classes
LnMilli[s \in Nat] ==
    CASE s = 1000 -> 0     [] s = 2718 -> 1000
      [] s = 2000 -> 693   [] s = 3718 -> 1313  [] s = 5436 -> 1693
      [] s = 3000 -> 1099  [] s = 4718 -> 1551  [] s = 6436 -> 1862
      [] s = 8154 -> 2099  [] s = 4000 -> 1386  [] s = 5718 -> 1744
      [] s = 7436 -> 2006  [] s = 9154 -> 2214  [] s = 10872 -> 2386
      [] OTHER -> 2500

LogitVecs == [Classes -> LogitVals]

SumExpTo[x \in LogitVecs, k \in Nat] ==
    IF k = 0 THEN 0 ELSE SumExpTo[x, k - 1] + ExpMilli[x[k - 1]]

\* the softmax denominator of one logit vector, in thousandths
SumExp[x \in LogitVecs] == SumExpTo[x, NumClasses]

\* ------------------------------------------------- torch.nn.functional
\* F.softmax(x, dim=-1) of one logit vector x: a probability per class
Softmax[x \in LogitVecs] == [c \in Classes |-> (1000 * ExpMilli[x[c]]) \div SumExp[x]]

\* -log softmax(x)[t] of one example, in thousandths
ExampleLoss[x \in LogitVecs, t \in Classes] == LnMilli[SumExp[x]] - 1000 * x[t]

\* F.cross_entropy(x, target): x the [B, D] logits of one member, mean over B
CrossEntropy[x \in Seq(LogitVecs), tg \in Seq(Classes)] ==
    RDivInt[RSum[[e \in 1 .. Len(tg) |-> <<ExampleLoss[x[e], tg[e]], 1>>]], Len(tg)]

\* probabilities in thousandths, one per class
ProbVecs == [Classes -> Nat]

ArgmaxLast[p \in ProbVecs] ==
    CHOOSE c \in Classes :
        /\ \A k \in Classes : p[k] <= p[c]
        /\ \A k \in Classes : k > c => p[k] < p[c]

\* tensor.argmax(-1): the first index holding the largest value
Argmax[p \in ProbVecs] ==
    CHOOSE c \in Classes :
        /\ \A k \in Classes : p[k] <= p[c]
        /\ \A k \in Classes : k < c => p[k] < p[c]

\* how often each label occurs among the member labels
Counts[labels \in Seq(Classes)] ==
    [l \in Classes |-> Cardinality({m \in 1 .. Len(labels) : labels[m] = l})]

Mode_largest(cnt) ==
    CHOOSE l \in Classes :
        /\ \A k \in Classes : cnt[k] <= cnt[l]
        /\ \A k \in Classes : k > l => cnt[k] < cnt[l]

\* tensor.mode(0)[0] on the CPU, from the label counts: the most frequent label,
\* the smallest on a tie
Mode(cnt) ==
    CHOOSE l \in Classes :
        /\ \A k \in Classes : cnt[k] <= cnt[l]
        /\ \A k \in Classes : k < l => cnt[k] < cnt[l]

Tensors == Seq(Seq(LogitVecs))

\* probs.mean(0) for example e: the member average of the class probabilities
MeanProbs[outs \in Tensors, e \in Nat] ==
    [c \in Classes |-> Sum[[m \in 1 .. Len(outs) |-> Softmax[outs[m][e]][c]]] \div Len(outs)]

\* probs.argmax(-1) for example e: the hard label of each member
HardLabels[outs \in Tensors, e \in Nat] ==
    [m \in 1 .. Len(outs) |-> Argmax[Softmax[outs[m][e]]]]

SoftVote_last(outs, B) == [e \in 1 .. B |-> ArgmaxLast[MeanProbs[outs, e]]]

\* lines 221-224: vote == 'soft'
SoftVote(outs, B) == [e \in 1 .. B |-> Argmax[MeanProbs[outs, e]]]

\* preds.mode(0)[0] for example e
ModeOfLabels[labels \in Seq(Classes)] == Mode(Counts[labels])

\* lines 226-229: vote == 'hard'
HardVote(outs, B) == [e \in 1 .. B |-> ModeOfLabels[HardLabels[outs, e]]]

\* lines 221-229; no branch binds vote for any other string
VoteOf(v, outs, B) ==
    IF v = "soft" THEN SoftVote(outs, B)
    ELSE IF v = "hard" THEN HardVote(outs, B)
    ELSE <<>>

\* line 231: vote.eq(target).float().sum()
NumCorrect(vt, tg) == Cardinality({e \in 1 .. Len(tg) : vt[e] = tg[e]})

\* line 219 and line 233: losses.mean() of the stacked member losses
LossesMean[outs \in Tensors, tg \in Seq(Classes)] ==
    RDivInt[RSum[[m \in 1 .. Len(outs) |-> CrossEntropy[outs[m], tg]]], Len(outs)]

\* line 218: outputs[:ens_size]
Truncate(outs, n) == IF n >= Len(outs) THEN outs ELSE SubSeq(outs, 1, n)

\* ------------------------------------------------------------------ state
VARIABLES
    dataset, vote, particles, test_ensemble, test_uncertainty,  \* args kept by __init__
    generator,                  \* what the hypernetwork's generator can produce
    test_len, test_bs,          \* len(self.data_test.dataset) and the loader's batch size
    pc,                         \* the call train() executes next
    epoch, batch_idx,           \* the loop variables of train()
    trace,                      \* the calls made so far in the current training batch
    mode,                       \* hypernetwork mode: "train" or "eval"
    gen_weights,                \* number of optimizer updates applied to the generator
    gen_grad,                   \* gradient accumulators of the generator's weights
    z, theta, theta_grad,       \* latents, particles and the particles' gradients
    outputs, target, voted,     \* locals: predictions [n, B, D], labels, the vote
    ens_sizes, ens_i, ens_size, \* evaluate_as_ensemble's list, its position, the size in use
    unc_i,                      \* position in the uncertainty loop of line 175
    test_i, test_loss, correct, \* locals of test(): batches done, running loss, correct count
    ret,                        \* what the last test() returned: <<loss, acc, correct>>
    best_test_acc, best_test_loss,
    batch_terms, example_sum    \* history of test(): each batch's losses.mean(), and the
                                \* sum over its examples of the member-mean example loss

cfg_vars == <<dataset, vote, particles, test_ensemble, test_uncertainty, generator,
              test_len, test_bs>>
net_vars == <<mode, gen_weights, gen_grad>>
batch_vars == <<z, theta, theta_grad, outputs, target, voted>>
eval_vars == <<ens_sizes, ens_i, ens_size, unc_i>>
test_vars == <<test_i, test_loss, correct, ret>>
best_vars == <<best_test_acc, best_test_loss>>
hist_vars == <<batch_terms, example_sum>>
vars == <<cfg_vars, pc, epoch, batch_idx, trace, net_vars, batch_vars, eval_vars,
          test_vars, best_vars, hist_vars>>

\* ------------------------------------------------------- collaborators
\* The parameter vector of one particle.  The target classifier of the model has
\* one parameter per class, the logit it predicts for it: a one-hot logit vector.
Params == {[c \in Classes |-> IF c = k THEN 1 ELSE 0] : k \in Classes}

\* the parameter vectors a generator with two modes produces
TwoModes == {p \in Params : p[0] = 1 \/ p[1] = 1}

\* hypernetwork.sample_parameters(z): one parameter vector per particle.  A
\* collapsed generator maps every latent to the same parameters; a diverse one
\* gives each particle either of its two modes.
SampleParameters(g, N) ==
    IF g = "collapsed" THEN {[m \in 1 .. N |-> p] : p \in Params} ELSE [1 .. N -> TwoModes]

\* hypernetwork.forward_model(data) transposed to [N, B, D]
ForwardModel(th, B) == [m \in 1 .. Len(th) |-> [e \in 1 .. B |-> th[m]]]

\* the label of test example e (1-based) of the test loader
TestTarget(e) == (e - 1) % NumClasses

\* number of batches the test loader yields
TestBatchCount(S, B) == (S + B - 1) \div B

\* size of the test loader's batch i (0-based); the last one may be short
TestBatchSize(S, B, i) == IF (i + 1) * B <= S THEN B ELSE S - i * B

\* labels of the test loader's batch i (0-based)
TestBatchTarget(S, B, i) == [e \in 1 .. TestBatchSize(S, B, i) |-> TestTarget(i * B + e)]

\* hypernetwork.zero_grad()
ZeroGrad(g) == "zero"

\* grad_estimator.apply_gradients(): backpropagates the particles' corrected
\* gradients into the generator's accumulators
ApplyGradients(g, tg) == IF tg = "corrected" THEN "backprop" ELSE g

\* hypernetwork.update_step(): the optimizer consumes the accumulated gradients
UpdateStep(w, g) == IF g = "backprop" THEN w + 1 ELSE w

\* ------------------------------------------------------------ __init__
NoTensor == <<>>

\* line 65-134: the state __init__ leaves, whatever the arguments
InitCommon ==
    /\ epoch = 0 /\ batch_idx = 0 /\ trace = <<>>
    /\ mode = "train" /\ gen_weights = 0 /\ gen_grad = "none"
    /\ z = "none" /\ theta = "none" /\ theta_grad = "none"
    /\ target = NoTensor /\ voted = NoTensor
    /\ unc_i = 1
    /\ test_i = 0 /\ test_loss = Zero /\ correct = 0 /\ ret = <<>>
    /\ best_test_acc = Zero
    /\ best_test_loss = Inf
    /\ batch_terms = <<>> /\ example_sum = Zero

\* the --dataset and --vote arguments tried: two supported pairs, an unsupported
\* dataset, an unsupported vote
Configs ==
    {<<"mnist", "soft">>, <<"cifar", "hard">>, <<"svhn", "soft">>, <<"mnist", "mean">>}

\* a trainer built from any arguments, about to run train(); its generator is
\* collapsed and its test loader holds MaxTest examples
Init ==
    /\ \E c \in Configs : dataset = c[1] /\ vote = c[2]
    /\ particles \in 1 .. MaxParticles
    /\ test_ensemble \in BOOLEAN
    /\ test_uncertainty \in BOOLEAN
    /\ generator = "collapsed"
    /\ test_len = MaxTest
    /\ test_bs \in 1 .. MaxBatch
    /\ pc = "train"
    /\ ens_sizes = <<>> /\ ens_i = 1 /\ ens_size = 0
    /\ outputs = NoTensor
    /\ InitCommon

\* --------------------------------------------------------------- train()
TrainOrder == <<"sample_generator_input", "sample_parameters", "set_parameters_to_model",
                "forward_model", "compute_gradients", "zero_grad", "apply_gradients",
                "update_step">>

\* line 139-140: the first iteration reads self.data_train, which __init__ binds
\* only for 'mnist' and 'cifar' (AttributeError otherwise)
TrainBegin ==
    /\ pc = "train"
    /\ pc' = IF dataset \in {"mnist", "cifar"} THEN "sample_generator_input" ELSE "error"
    /\ epoch' = 0 /\ batch_idx' = 0
    /\ UNCHANGED <<cfg_vars, trace, net_vars, batch_vars, eval_vars, test_vars,
                   best_vars, hist_vars>>

\* line 141-142.  In the training loop the tensors are tokens: their values reach
\* only the estimator and the printed statistics.
TrainSampleLatents ==
    /\ pc = "sample_generator_input"
    /\ z' = "sampled"
    /\ target' = "labels"
    /\ trace' = <<"sample_generator_input">>
    /\ pc' = "sample_parameters"
    /\ UNCHANGED <<cfg_vars, epoch, batch_idx, net_vars, theta, theta_grad, outputs,
                   voted, eval_vars, test_vars, best_vars, hist_vars>>

\* line 143-144
TrainSampleParameters ==
    /\ pc = "sample_parameters"
    /\ theta' = "particles"
    /\ theta_grad' = "none"
    /\ trace' = Append(trace, "sample_parameters")
    /\ pc' = "set_parameters_to_model"
    /\ UNCHANGED <<cfg_vars, epoch, batch_idx, net_vars, z, outputs, target, voted,
                   eval_vars, test_vars, best_vars, hist_vars>>

\* line 145
TrainInstall ==
    /\ pc = "set_parameters_to_model"
    /\ trace' = Append(trace, "set_parameters_to_model")
    /\ pc' = "forward_model"
    /\ UNCHANGED <<cfg_vars, epoch, batch_idx, net_vars, batch_vars, eval_vars,
                   test_vars, best_vars, hist_vars>>

\* line 146-147
TrainForward ==
    /\ pc = "forward_model"
    /\ outputs' = "predictions"
    /\ trace' = Append(trace, "forward_model")
    /\ pc' = "compute_gradients"
    /\ UNCHANGED <<cfg_vars, epoch, batch_idx, net_vars, z, theta, theta_grad, target,
                   voted, eval_vars, test_vars, best_vars, hist_vars>>

\* line 149-152: the estimator leaves the corrected gradients on the particles
TrainComputeGradients ==
    /\ pc = "compute_gradients"
    /\ theta_grad' = "corrected"
    /\ trace' = Append(trace, "compute_gradients")
    /\ pc' = "zero_grad"
    /\ UNCHANGED <<cfg_vars, epoch, batch_idx, net_vars, z, theta, outputs, target,
                   voted, eval_vars, test_vars, best_vars, hist_vars>>

TrainZeroGrad_late ==
    /\ pc = "zero_grad"
    /\ gen_grad' = ZeroGrad(ApplyGradients(gen_grad, theta_grad))
    /\ trace' = trace \o <<"apply_gradients", "zero_grad">>
    /\ pc' = "update_step"
    /\ UNCHANGED <<cfg_vars, epoch, batch_idx, mode, gen_weights, batch_vars,
                   eval_vars, test_vars, best_vars, hist_vars>>

\* line 153
TrainZeroGrad ==
    /\ pc = "zero_grad"
    /\ gen_grad' = ZeroGrad(gen_grad)
    /\ trace' = Append(trace, "zero_grad")
    /\ pc' = "apply_gradients"
    /\ UNCHANGED <<cfg_vars, epoch, batch_idx, mode, gen_weights, batch_vars,
                   eval_vars, test_vars, best_vars, hist_vars>>

\* line 154
TrainApplyGradients ==
    /\ pc = "apply_gradients"
    /\ gen_grad' = ApplyGradients(gen_grad, theta_grad)
    /\ trace' = Append(trace, "apply_gradients")
    /\ pc' = "update_step"
    /\ UNCHANGED <<cfg_vars, epoch, batch_idx, mode, gen_weights, batch_vars,
                   eval_vars, test_vars, best_vars, hist_vars>>

\* line 156
TrainUpdateStep ==
    /\ pc = "update_step"
    /\ gen_weights' = UpdateStep(gen_weights, gen_grad)
    /\ trace' = Append(trace, "update_step")
    /\ pc' = "log"
    /\ UNCHANGED <<cfg_vars, epoch, batch_idx, mode, gen_grad, batch_vars, eval_vars,
                   test_vars, best_vars, hist_vars>>

\* line 158-166 and the loop header of line 140: the statistics are printed, the
\* batch's tensors die, the next batch starts or the loader is exhausted
TrainLog ==
    /\ pc = "log"
    /\ batch_idx' = batch_idx + 1
    /\ z' = "none" /\ theta' = "none" /\ theta_grad' = "none"
    /\ outputs' = NoTensor /\ target' = NoTensor
    /\ pc' = IF batch_idx + 1 < TrainBatches THEN "sample_generator_input" ELSE "ens_sizes"
    /\ UNCHANGED <<cfg_vars, epoch, trace, net_vars, voted, eval_vars, test_vars,
                   best_vars, hist_vars>>

\* line 168-171
EnsSizes == IF test_ensemble THEN <<1, 5, 10, particles>> ELSE <<particles>>

\* line 168-172: the call of evaluate_as_ensemble(ens_sizes, epoch)
TrainEnsSizes ==
    /\ pc = "ens_sizes"
    /\ ens_sizes' = EnsSizes
    /\ ens_i' = 1
    /\ pc' = "evaluate"
    /\ UNCHANGED <<cfg_vars, epoch, batch_idx, trace, net_vars, batch_vars, ens_size,
                   unc_i, test_vars, best_vars, hist_vars>>

\* ------------------------------------------------- evaluate_as_ensemble()
\* line 198-199 and 204-209: test(n_models) is entered
TestEnter ==
    /\ pc = "evaluate"
    /\ ens_i <= Len(ens_sizes)
    /\ ens_size' = ens_sizes[ens_i]
    /\ test_i' = 0 /\ test_loss' = Zero /\ correct' = 0
    /\ mode' = "eval"
    /\ batch_terms' = <<>> /\ example_sum' = Zero
    /\ pc' = "test_batch"
    /\ UNCHANGED <<cfg_vars, epoch, batch_idx, trace, gen_weights, gen_grad, batch_vars,
                   ens_sizes, ens_i, unc_i, ret, best_vars>>

\* history: over the examples of a batch, the sum of the member-mean example loss
ExampleSum[outs \in Tensors, tg \in Seq(Classes)] ==
    RSum[[e \in 1 .. Len(tg) |->
             RDivInt[RSum[[m \in 1 .. Len(outs) |-> <<ExampleLoss[outs[m][e], tg[e]], 1>>]],
                     Len(outs)]]]

AddLoss_perExample(tl, outs, tg) == RAdd[tl, RMulInt[LossesMean[outs, tg], Len(tg)]]

\* line 233: test_loss += losses.mean().item()
AddLoss(tl, outs, tg) == RAdd[tl, LossesMean[outs, tg]]

TestBatch_updating ==
    /\ pc = "test_batch"
    /\ test_i < TestBatchCount(test_len, test_bs)
    /\ vote \in {"soft", "hard"}
    /\ \E th \in SampleParameters(generator, particles),
          tg \in {TestBatchTarget(test_len, test_bs, test_i)} :
         \E outs \in {Truncate(ForwardModel(th, Len(tg)), ens_size)} :
           \E vt \in {VoteOf(vote, outs, Len(tg))} :
              /\ outputs' = outs
              /\ target' = tg
              /\ voted' = vt
              /\ correct' = correct + NumCorrect(vt, tg)
              /\ test_loss' = AddLoss(test_loss, outs, tg)
              /\ batch_terms' = Append(batch_terms, LossesMean[outs, tg])
              /\ example_sum' = RAdd[example_sum, ExampleSum[outs, tg]]
    /\ z' = "sampled" /\ theta' = "particles" /\ theta_grad' = "corrected"
    /\ gen_grad' = ApplyGradients(ZeroGrad(gen_grad), "corrected")
    /\ gen_weights' = UpdateStep(gen_weights, "backprop")
    /\ test_i' = test_i + 1
    /\ UNCHANGED <<cfg_vars, pc, epoch, batch_idx, trace, mode, eval_vars, ret, best_vars>>

\* line 210-233: one iteration of the loop over self.data_test, for a vote string
\* the branches of line 221 and 226 know
TestBatch ==
    /\ pc = "test_batch"
    /\ test_i < TestBatchCount(test_len, test_bs)
    /\ vote \in {"soft", "hard"}
    /\ \E th \in SampleParameters(generator, particles),
          tg \in {TestBatchTarget(test_len, test_bs, test_i)} :
         \E outs \in {Truncate(ForwardModel(th, Len(tg)), ens_size)} :
           \E vt \in {VoteOf(vote, outs, Len(tg))} :
              /\ outputs' = outs
              /\ target' = tg
              /\ voted' = vt
              /\ correct' = correct + NumCorrect(vt, tg)
              /\ test_loss' = AddLoss(test_loss, outs, tg)
              /\ batch_terms' = Append(batch_terms, LossesMean[outs, tg])
              /\ example_sum' = RAdd[example_sum, ExampleSum[outs, tg]]
    /\ z' = "sampled" /\ theta' = "particles" /\ theta_grad' = "none"
    /\ test_i' = test_i + 1
    /\ UNCHANGED <<cfg_vars, pc, epoch, batch_idx, trace, net_vars, eval_vars, ret,
                   best_vars>>

\* line 210-231 with any other vote string: no branch binds vote, and line 231
\* raises UnboundLocalError in the first iteration
TestBatchUnbound ==
    /\ pc = "test_batch"
    /\ test_i < TestBatchCount(test_len, test_bs)
    /\ vote \notin {"soft", "hard"}
    /\ \E th \in SampleParameters(generator, particles),
          tg \in {TestBatchTarget(test_len, test_bs, test_i)} :
         /\ outputs' = Truncate(ForwardModel(th, Len(tg)), ens_size)
         /\ target' = tg
    /\ z' = "sampled" /\ theta' = "particles" /\ theta_grad' = "none"
    /\ pc' = "error"
    /\ UNCHANGED <<cfg_vars, epoch, batch_idx, trace, net_vars, voted, eval_vars,
                   test_vars, best_vars, hist_vars>>

BestLoss_overwrite(best, loss) == loss

\* line 238-241
BestLoss(best, loss) == IF RLt[loss, best] THEN loss ELSE best

\* line 238, 242-243
BestAcc(best, acc) == IF RLt[best, acc] THEN acc ELSE best

Normalize_byBatches(tl) == RDivInt[tl, TestBatchCount(test_len, test_bs)]

\* line 234: test_loss /= len(self.data_test.dataset)
Normalize(tl) == RDivInt[tl, test_len]

TestExit_noTrain ==
    /\ pc = "test_batch"
    /\ test_i = TestBatchCount(test_len, test_bs)
    /\ \E loss \in {Normalize(test_loss)}, acc \in {Rat[correct, test_len]} :
          /\ test_loss' = loss
          /\ ret' = <<loss, acc, correct>>
          /\ best_test_loss' = BestLoss(best_test_loss, loss)
          /\ best_test_acc' = BestAcc(best_test_acc, acc)
    /\ mode' = mode
    /\ z' = "none" /\ theta' = "none" /\ theta_grad' = "none"
    /\ outputs' = NoTensor /\ target' = NoTensor /\ voted' = NoTensor
    /\ ens_i' = ens_i + 1
    /\ pc' = "evaluate"
    /\ UNCHANGED <<cfg_vars, epoch, batch_idx, trace, gen_weights, gen_grad, ens_sizes,
                   ens_size, unc_i, test_i, correct, hist_vars>>

\* line 234-245 and 200-202: the loader is exhausted, test() normalises, restores
\* train mode, updates the best metrics and returns; its tensors die
TestExit ==
    /\ pc = "test_batch"
    /\ test_i = TestBatchCount(test_len, test_bs)
    /\ \E loss \in {Normalize(test_loss)}, acc \in {Rat[correct, test_len]} :
          /\ test_loss' = loss
          /\ ret' = <<loss, acc, correct>>
          /\ best_test_loss' = BestLoss(best_test_loss, loss)
          /\ best_test_acc' = BestAcc(best_test_acc, acc)
    /\ mode' = "train"
    /\ z' = "none" /\ theta' = "none" /\ theta_grad' = "none"
    /\ outputs' = NoTensor /\ target' = NoTensor /\ voted' = NoTensor
    /\ ens_i' = ens_i + 1
    /\ pc' = "evaluate"
    /\ UNCHANGED <<cfg_vars, epoch, batch_idx, trace, gen_weights, gen_grad, ens_sizes,
                   ens_size, unc_i, test_i, correct, hist_vars>>

\* line 198 exhausted, line 174: evaluate_as_ensemble() returns to train()
EvaluateDone ==
    /\ pc = "evaluate"
    /\ ens_i > Len(ens_sizes)
    /\ unc_i' = 1
    /\ ret' = <<>>
    /\ batch_terms' = <<>> /\ example_sum' = Zero
    /\ pc' = "uncertainty"
    /\ UNCHANGED <<cfg_vars, epoch, batch_idx, trace, net_vars, batch_vars, ens_sizes,
                   ens_i, ens_size, test_i, test_loss, correct, best_vars>>

\* line 175
UncertaintySizes == <<5, 10, particles>>

\* line 174-195: one iteration of the uncertainty loop (uncertainty_fn on inliers
\* and outliers, then plot_fn)
Uncertainty ==
    /\ pc = "uncertainty"
    /\ test_uncertainty
    /\ unc_i <= Len(UncertaintySizes)
    /\ ens_size' = UncertaintySizes[unc_i]
    /\ unc_i' = unc_i + 1
    /\ UNCHANGED <<cfg_vars, pc, epoch, batch_idx, trace, net_vars, batch_vars,
                   ens_sizes, ens_i, test_vars, best_vars, hist_vars>>

\* line 139: the next epoch, or train() returns
EpochNext ==
    /\ pc = "uncertainty"
    /\ ~test_uncertainty \/ unc_i > Len(UncertaintySizes)
    /\ epoch' = epoch + 1
    /\ batch_idx' = 0
    /\ pc' = IF epoch + 1 < epochs THEN "sample_generator_input" ELSE "done"
    /\ UNCHANGED <<cfg_vars, trace, net_vars, batch_vars, eval_vars, test_vars,
                   best_vars, hist_vars>>

\* ------------------------------------------------------- specifications
Next ==
    \/ TrainBegin
    \/ TrainSampleLatents
    \/ TrainSampleParameters
    \/ TrainInstall
    \/ TrainForward
    \/ TrainComputeGradients
    \/ TrainZeroGrad
    \/ TrainApplyGradients
    \/ TrainUpdateStep
    \/ TrainLog
    \/ TrainEnsSizes
    \/ TestEnter
    \/ TestBatch
    \/ TestBatchUnbound
    \/ TestExit
    \/ EvaluateDone
    \/ Uncertainty
    \/ EpochNext

\* the whole run of train()
Spec == Init /\ [][Next]_vars

\* one call test(n) on a fresh trainer, n one of the sizes train() requests, with
\* any test loader and a generator whose particles differ
InitTest ==
    /\ dataset = "mnist"
    /\ vote \in {"soft", "hard"}
    /\ particles \in 1 .. MaxParticles
    /\ test_ensemble = TRUE
    /\ test_uncertainty = FALSE
    /\ generator = "diverse"
    /\ test_len \in 1 .. MaxTest
    /\ test_bs \in 1 .. MaxBatch
    /\ pc = "evaluate"
    /\ ens_sizes \in {<<1>>, <<particles>>}
    /\ ens_i = 1 /\ ens_size = 0
    /\ outputs = NoTensor
    /\ InitCommon

NextTest ==
    \/ TestEnter
    \/ TestBatch
    \/ TestExit

SpecTest == InitTest /\ [][NextTest]_vars

\* the voting rule of test() applied to any predictions of an ensemble for one
\* example
InitVote ==
    /\ dataset = "mnist"
    /\ vote \in {"soft", "hard"}
    /\ particles \in 1 .. MaxMembers
    /\ test_ensemble = FALSE
    /\ test_uncertainty = FALSE
    /\ generator = "diverse"
    /\ test_len = 1
    /\ test_bs = 1
    /\ pc = "vote"
    /\ ens_sizes = <<particles>> /\ ens_i = 1 /\ ens_size = particles
    /\ outputs \in [1 .. particles -> [1 .. 1 -> LogitVecs]]
    /\ InitCommon

\* line 221-229 on the predictions at hand
ApplyVote ==
    /\ pc = "vote"
    /\ \E vt \in {VoteOf(vote, outputs, 1)} : voted' = vt
    /\ pc' = "voted"
    /\ UNCHANGED <<cfg_vars, epoch, batch_idx, trace, net_vars, z, theta, theta_grad,
                   outputs, target, eval_vars, test_vars, best_vars, hist_vars>>

NextVote == ApplyVote

SpecVote == InitVote /\ [][NextVote]_vars

\* ----------------------------------------------------------------- claims
Returned == pc = "evaluate" /\ ret # <<>>

\* C1: across the calls of test() best_test_loss never increases and
\* best_test_acc never decreases, starting from +infinity and 0.
C1_BestMonotone ==
    /\ best_test_loss = Inf /\ best_test_acc = Zero
    /\ [][/\ RLeq[best_test_loss', best_test_loss]
          /\ RLeq[best_test_acc, best_test_acc']]_vars

\* a call of test() that returned a worse loss and a worse accuracy than the best
C1_Witness ==
    /\ Returned
    /\ RLt[best_test_loss, ret[1]]
    /\ RLt[ret[2], best_test_acc]

BadConfig == dataset \notin {"mnist", "cifar"} \/ vote \notin {"soft", "hard"}

\* C2: with an unsupported dataset or vote string the trainer is in an error
\* state before any training or test batch is touched.
C2_FailFast == BadConfig => pc \in {"train", "error"} /\ trace = <<>> /\ test_i = 0

\* C3: in every training batch the eight calls happen once each in the order of
\* TrainOrder, the optimizer step finds the backpropagated gradients in place, and
\* each batch applies exactly one update.
C3_BatchOrder ==
    /\ Len(trace) <= Len(TrainOrder)
    /\ trace = SubSeq(TrainOrder, 1, Len(trace))
    /\ \A i \in 2 .. Len(TrainOrder) : pc = TrainOrder[i] => Len(trace) = i - 1
    /\ pc = "update_step" => gen_grad = "backprop"
    /\ pc = "log" => /\ trace = TrainOrder
                     /\ gen_weights = epoch * TrainBatches + batch_idx + 1

\* the second training batch of an epoch has made all its calls
C3_Witness == pc = "log" /\ batch_idx = 1 /\ trace = TrainOrder /\ gen_weights >= 2

\* C4: every ensemble size requested for evaluation or uncertainty lies in
\* 1 .. num_particles, and test(n) votes on exactly n members.
C4_SizesWithinEnsemble ==
    /\ ens_size # 0 => 1 <= ens_size /\ ens_size <= particles
    /\ pc = "test_batch" /\ test_i > 0 => Len(outputs) = ens_size

\* C5: the hard vote is a label that occurs most often among the members' argmax
\* labels, and the smallest such label on a tie; labels [0,0,1] and [0,1,2] give 0.
C5_HardVote ==
    pc = "voted" /\ vote = "hard" =>
        LET labels == HardLabels[outputs, 1]
            n(l) == Cardinality({m \in 1 .. Len(labels) : labels[m] = l})
        IN /\ \A k \in Classes : n(k) <= n(voted[1])
           /\ \A k \in Classes : k < voted[1] => n(k) < n(voted[1])
           /\ labels \in {<<0, 0, 1>>, <<0, 1, 2>>} => voted[1] = 0

\* three members that disagree pairwise: the tie goes to label 0
C5_Witness ==
    /\ pc = "voted" /\ vote = "hard"
    /\ HardLabels[outputs, 1] = <<0, 1, 2>>
    /\ voted[1] = 0

\* the first class holding the largest logit of one prediction
ArgmaxLogit(x) ==
    CHOOSE c \in Classes :
        /\ \A k \in Classes : x[k] <= x[c]
        /\ \A k \in Classes : k < c => x[k] < x[c]

\* C6: for a single member the soft and the hard vote agree, and both are the
\* argmax class of that member's prediction.
C6_SingleMember ==
    pc = "voted" /\ Len(outputs) = 1 =>
        /\ SoftVote(outputs, 1) = HardVote(outputs, 1)
        /\ voted = SoftVote(outputs, 1)
        /\ voted[1] = ArgmaxLogit(outputs[1][1])

\* a single member whose largest logit is shared by classes 1 and 2
C6_Witness ==
    /\ pc = "voted" /\ Len(outputs) = 1 /\ vote = "soft"
    /\ outputs[1][1][0] = 0 /\ outputs[1][1][1] = 1 /\ outputs[1][1][2] = 1
    /\ voted[1] = 1

\* for the batch at hand: the mean over the members of each member's batch-mean
\* cross-entropy
BatchMeanOfMembers ==
    LET n == Len(outputs)
        B == Len(target)
        member(m) == RDivInt[RSum[[e \in 1 .. B |->
                                     <<ExampleLoss[outputs[m][e], target[e]], 1>>]], B]
    IN RDivInt[RSum[[m \in 1 .. n |-> member(m)]], n]

\* C7: test(n) returns the sum over the batches of the member-mean of the
\* batch-mean cross-entropy, divided once by the dataset size, and the number of
\* examples whose vote equals the target divided by the dataset size, in [0, 1].
C7_Returned ==
    /\ [](pc = "test_batch" /\ test_i > 0 =>
            /\ Len(batch_terms) = test_i
            /\ batch_terms[test_i] = BatchMeanOfMembers)
    /\ [](Returned =>
            /\ Len(batch_terms) = TestBatchCount(test_len, test_bs)
            /\ ret[1] = RDivInt[RSum[batch_terms], test_len]
            /\ ret[2] = Rat[ret[3], test_len]
            /\ 0 <= ret[3] /\ ret[3] <= test_len
            /\ RLeq[Zero, ret[2]] /\ RLeq[ret[2], <<1, 1>>])
    /\ [][pc = "test_batch" /\ pc' = "test_batch" =>
            correct' = correct
                + Cardinality({e \in 1 .. Len(target') : voted'[e] = target'[e]})]_vars
    /\ [][pc = "test_batch" /\ pc' = "evaluate" => ret'[3] = correct]_vars

\* a call over two differing members and two batches of different sizes returned
C7_Witness ==
    /\ Returned
    /\ Len(batch_terms) = 2 /\ test_len = 3 /\ test_bs = 2
    /\ ens_size = 2 /\ particles = 2
    /\ batch_terms[1] # batch_terms[2]
    /\ ret[3] = 1

\* the true average per-example loss of the call that returned
TrueAverage == RDivInt[example_sum, test_len]

\* every batch of the test loader has the size of the first
EvenBatches ==
    \A i \in 0 .. (TestBatchCount(test_len, test_bs) - 1) :
        TestBatchSize(test_len, test_bs, i) = TestBatchSize(test_len, test_bs, 0)

\* C8 as stated: what test() returns is the true average per-example loss
\* exactly when the batch size is constant and divides the dataset evenly.
C8_Original == Returned => (ret[1] = TrueAverage <=> EvenBatches)

\* C8 amended: with a constant batch size B that divides the dataset evenly,
\* test() returns the true average per-example loss divided by B, which is the
\* true average only for B = 1; with batches of different sizes it is not the
\* true average either.
C8_Amended ==
    Returned =>
        /\ EvenBatches =>
             RMulInt[ret[1], TestBatchSize(test_len, test_bs, 0)] = TrueAverage
        /\ ret[1] = TrueAverage =>
             EvenBatches /\ TestBatchSize(test_len, test_bs, 0) = 1

\* two members, one batch of two examples: half the true average is returned
C8_Witness ==
    /\ Returned
    /\ test_len = 2 /\ test_bs = 2 /\ particles = 2 /\ ens_size = 2
    /\ RMulInt[ret[1], 2] = TrueAverage
    /\ ret[1] # TrueAverage

\* C9: every training-batch call runs in train mode, every test batch runs in
\* eval mode, and every test() that returns leaves the hypernetwork in train mode.
C9_ModeDiscipline ==
    /\ pc \in {TrainOrder[i] : i \in 1 .. Len(TrainOrder)} => mode = "train"
    /\ pc = "test_batch" => mode = "eval"
    /\ Returned => mode = "train"

\* the forward pass of a training batch of the second epoch, after test() ran
C9_Witness ==
    /\ pc = "forward_model" /\ epoch = 1
    /\ mode = "train"
    /\ best_test_loss # Inf

\* C10: the best metrics change only when test() returns; the generator's weights
\* change only in update_step, by one update, and are never reset; its gradient
\* accumulators change only in zero_grad and apply_gradients.
C10_Ownership ==
    [][/\ best_vars' # best_vars => pc = "test_batch" /\ pc' = "evaluate"
       /\ gen_weights' # gen_weights =>
            pc = "update_step" /\ gen_weights' = gen_weights + 1
       /\ gen_grad' # gen_grad => pc \in {"zero_grad", "apply_gradients"}]_vars

\* the optimizer step of the second epoch: the weights of the first epoch
\* survived the evaluation, which set the best metrics
C10_Witness ==
    /\ pc = "update_step" /\ epoch = 1
    /\ gen_weights = TrainBatches
    /\ best_test_loss # Inf

====
